---- MODULE Spec2Model ----
(***************************************************************************)
(* pnet (Networking-Lib, python): the wire framing codec (byteutils, crc,  *)
(* header), the client and server socket wrappers and the PServer          *)
(* connection manager, as a state machine over byte streams.               *)
(***************************************************************************)
EXTENDS Integers, Sequences, FiniteSets, TLC

(***************************************************************************)
(* Values.  A byte string is a sequence over 0..255.  Python's None is a   *)
(* value that no byte string equals.  A call either returns a value or     *)
(* raises: exc = "" is a normal return.                                    *)
(***************************************************************************)
None == <<-1>>

Ok(v) == [exc |-> "", val |-> v]

Raise(e) == [exc |-> e, val |-> None]

Min(a, b) == IF a < b THEN a ELSE b

Take(s, n) == SubSeq(s, 1, Min(n, Len(s)))

Drop(s, n) == SubSeq(s, Min(n, Len(s)) + 1, Len(s))

(***************************************************************************)
(* Python integers are unbounded; the codec handles values of 0 .. 2^32-1  *)
(* (an unsigned CRC) and negative ones.  An integer is a sign and a        *)
(* little-endian base-256 magnitude without trailing zero digits.          *)
(***************************************************************************)
RECURSIVE StripZeros(_)
StripZeros(d) ==
    IF Len(d) > 0 /\ d[Len(d)] = 0 THEN StripZeros(SubSeq(d, 1, Len(d) - 1)) ELSE d

PyInt(neg, digits) == [neg |-> neg, mag |-> StripZeros(digits)]

RECURSIVE NatDigits(_)
NatDigits(n) == IF n = 0 THEN <<>> ELSE <<n % 256>> \o NatDigits(n \div 256)

PyNat(n) == PyInt(FALSE, NatDigits(n))

PyNeg(n) == PyInt(TRUE, NatDigits(n))

\* The bound below which a magnitude is a number the model can count with.
Countable(i) == Len(i.mag) <= 3

RECURSIVE DigitsNat(_)
DigitsNat(d) == IF Len(d) = 0 THEN 0 ELSE d[1] + 256 * DigitsNat(Tail(d))

(***************************************************************************)
(* byteutils.py                                                            *)
(***************************************************************************)
BYTES_PER_INT == 4

\* n.to_bytes(4, "little"): unsigned; OverflowError when n is negative or
\* does not fit in 4 bytes.
int_to_bytes(n) ==
    IF n.neg \/ Len(n.mag) > BYTES_PER_INT
    THEN Raise("OverflowError")
    ELSE Ok([i \in 1..BYTES_PER_INT |-> IF i <= Len(n.mag) THEN n.mag[i] ELSE 0])

\* int.from_bytes(b, "little"): unsigned.
bytes_to_int(b) ==
    IF b = None THEN Raise("TypeError")
    ELSE IF Len(b) # BYTES_PER_INT THEN Raise("ValueError")
    ELSE [exc |-> "", val |-> PyInt(FALSE, b)]

\* A str is its code points behind the tag -2: no byte string and no None
\* equals one.
Str(codes) == <<-2>> \o codes

isinstance_str(v) == Len(v) > 0 /\ v[1] = -2

\* The utf-8 bytes of code points below 2048.
RECURSIVE Utf8(_)
Utf8(codes) ==
    IF codes = <<>> THEN <<>>
    ELSE (IF Head(codes) < 128 THEN <<Head(codes)>>
          ELSE <<192 + (Head(codes) \div 64), 128 + (Head(codes) % 64)>>)
         \o Utf8(Tail(codes))

\* byteutils.str_to_bytes: bytes(string, "utf-8"), None for None.
str_to_bytes(string) == IF string = None THEN None ELSE Utf8(Tail(string))

\* b.decode("utf-8") for sequences of one and two bytes, as code points.
RECURSIVE Utf8Decode(_)
Utf8Decode(b) ==
    IF b = <<>> THEN Ok(<<>>)
    ELSE IF b[1] < 128
         THEN LET rest == Utf8Decode(Tail(b))
              IN  IF rest.exc # "" THEN rest ELSE Ok(<<b[1]>> \o rest.val)
    ELSE IF b[1] \in 194..223 /\ Len(b) >= 2 /\ b[2] \in 128..191
         THEN LET rest == Utf8Decode(Tail(Tail(b)))
              IN  IF rest.exc # "" THEN rest
                  ELSE Ok(<<(b[1] - 192) * 64 + (b[2] - 128)>> \o rest.val)
    ELSE Raise("UnicodeDecodeError")

\* byteutils.bytes_to_str: b.decode("utf-8"), None for None.
bytes_to_str(b) ==
    IF b = None THEN Ok(None)
    ELSE LET codes == Utf8Decode(b)
         IN  IF codes.exc # "" THEN codes ELSE Ok(Str(codes.val))

(***************************************************************************)
(* binascii.crc32: the reflected CRC-32 (polynomial EDB88320), table       *)
(* driven, on 32-bit words held as 4 little-endian bytes.                  *)
(***************************************************************************)
RECURSIVE XorN(_, _, _)
XorN(a, b, n) ==
    IF n = 0 THEN 0 ELSE ((a + b) % 2) + 2 * XorN(a \div 2, b \div 2, n - 1)

Xor4 == [a \in 0..15 |-> [b \in 0..15 |-> XorN(a, b, 4)]]

Xor8(a, b) == 16 * Xor4[a \div 16][b \div 16] + Xor4[a % 16][b % 16]

XorW(x, y) == [i \in 1..4 |-> Xor8(x[i], y[i])]

Shr1(w) == [i \in 1..4 |-> (w[i] \div 2) + (IF i < 4 THEN 128 * (w[i + 1] % 2) ELSE 0)]

Shr8(w) == <<w[2], w[3], w[4], 0>>

CrcPoly == <<32, 131, 184, 237>>

AllOnes == <<255, 255, 255, 255>>

RECURSIVE CrcTableStep(_, _)
CrcTableStep(c, k) ==
    IF k = 0 THEN c
    ELSE CrcTableStep(IF c[1] % 2 = 1 THEN XorW(Shr1(c), CrcPoly) ELSE Shr1(c), k - 1)

CrcTable == [i \in 0..255 |-> CrcTableStep(<<i, 0, 0, 0>>, 8)]

RECURSIVE CrcUpdate(_, _)
CrcUpdate(c, b) ==
    IF Len(b) = 0 THEN c
    ELSE CrcUpdate(XorW(CrcTable[Xor8(c[1], b[1])], Shr8(c)), Tail(b))

\* crc.crc32: the unsigned 32-bit checksum as an integer; binascii raises
\* TypeError on None.
crc32(bytearr) ==
    IF bytearr = None THEN Raise("TypeError")
    ELSE [exc |-> "", val |-> PyInt(FALSE, XorW(CrcUpdate(AllOnes, bytearr), AllOnes))]

(***************************************************************************)
(* crc.py.  check returns True, False or None; the three are kept apart as *)
(* "True", "False" and "None", and only "True" is truthy.                  *)
(***************************************************************************)
NUM_BYTES == 4

crc_generate(payload) ==
    IF payload = None \/ Len(payload) = 0 THEN None
    ELSE int_to_bytes(crc32(payload).val).val

crc_attach(payload) ==
    LET crc == crc_generate(payload)
    IN  IF crc = None THEN None ELSE payload \o crc

extract_payload(body) ==
    IF body = None \/ Len(body) <= NUM_BYTES THEN None
    ELSE SubSeq(body, 1, Len(body) - NUM_BYTES)

extract_crc(body) ==
    IF body = None \/ Len(body) <= NUM_BYTES THEN None
    ELSE SubSeq(body, Len(body) - NUM_BYTES + 1, Len(body))

\* A check that looks at the length alone.  A faulty variant, for C28.
crc_check_LengthOnly(body) ==
    IF body = None \/ Len(body) <= NUM_BYTES THEN "None" ELSE "True"

crc_check(body) ==
    IF body = None \/ Len(body) <= NUM_BYTES THEN "None"
    ELSE LET payload == extract_payload(body)
             crc     == extract_crc(body)
             gen     == crc_generate(payload)
         IN  IF payload = None \/ crc = None \/ gen = None THEN "False"
             ELSE IF crc = gen THEN "True" ELSE "False"

\* A check_and_remove that removes without checking.  A faulty variant, for
\* C33.
check_and_remove_NoCheck(body) == extract_payload(body)

check_and_remove(body) ==
    IF crc_check(body) # "True" THEN None ELSE extract_payload(body)

(***************************************************************************)
(* header.py                                                               *)
(***************************************************************************)
SIZE == 8 + NUM_BYTES

HEADER_BYTE == <<104>>

BODY_LENGTH_OFFSET == 4

BODY_LENGTH_SIZE == 4

CRC_OFFSET == 8

CRC_SIZE == NUM_BYTES

\* header.Info.__init__: the parsed header, or the exception raised.
Info(header) ==
    IF header = None THEN Raise("TypeError")
    ELSE IF Len(header) # SIZE THEN Raise("MissingDataError")
    ELSE IF crc_check(header) # "True" THEN Raise("MalformedDataError")
    ELSE LET size_bytes == SubSeq(header, BODY_LENGTH_OFFSET + 1,
                                  BODY_LENGTH_OFFSET + BODY_LENGTH_SIZE)
             crc_bytes  == SubSeq(header, CRC_OFFSET + 1, CRC_OFFSET + CRC_SIZE)
             size       == bytes_to_int(size_bytes).val
         IN  IF size.neg THEN Raise("MalformedDataError")
             ELSE [exc |-> "",
                   val |-> [id |-> <<header[1]>>, size |-> size,
                            crc |-> bytes_to_int(crc_bytes).val]]

\* A _generate that does not check the body.  A faulty variant, for C26.
header_generate_NoCheck(body) ==
    LET length_bytes == int_to_bytes(PyNat(Len(body)))
    IN  IF length_bytes.exc # "" THEN length_bytes
        ELSE Ok(crc_attach(HEADER_BYTE \o <<0, 0, 0>> \o length_bytes.val))

header_generate(body) ==
    IF crc_check(body) # "True" THEN Raise("MalformedDataError")
    ELSE LET length_bytes == int_to_bytes(PyNat(Len(body)))
         IN  IF length_bytes.exc # "" THEN length_bytes
             ELSE Ok(crc_attach(HEADER_BYTE \o <<0, 0, 0>> \o length_bytes.val))

header_attach(body) ==
    IF body = None THEN Raise("TypeError")
    ELSE LET header == header_generate(body)
         IN  IF header.exc # "" THEN header ELSE Ok(header.val \o body)

validate_and_parse(header) == Info(header)

(***************************************************************************)
(* Bounds and input sets.                                                  *)
(***************************************************************************)
NumClients == 2

MaxPayloadLen == 1

MaxSends == 1

MaxApiCalls == 1

MaxFaults == 1

\* Frames a client sends in a row where the order of frames is looked at.
MaxBurst == 2

Conns == 1..NumClients

\* Client i sends payloads of its own byte, of every length up to the bound.
PayloadsOf(i) == UNION {[1..n -> {96 + i}] : n \in 0..MaxPayloadLen}

\* Eight bytes followed by their own checksum: bytes an application may well
\* send (a frame inside a frame).  Its body is 16 bytes, so a read of the
\* body may stop after 12.
NestedPayload == crc_attach(<<97, 97, 97, 97, 97, 97, 97, 97>>)

\* The payloads of a client that sends frames in a row.
BurstPayloads == {<<97>>, <<98>>, NestedPayload}

\* The strings a client passes to send: "" and "\u00e9".
StrPayloads == {Str(<<>>), Str(<<233>>)}

\* What the application broadcasts.
ApiPayloads == {<<120>>}

\* Byte counts, short of the whole, that one transport read or write may
\* move: inside the header, the header exactly, inside the body.
ShortCounts == {1, 12, 13}

\* A frame with one bit of the byte at pos flipped.
Flip(msg, pos) == [msg EXCEPT ![pos] = Xor8(@, 1)]

\* Positions a faulty peer corrupts: the length field, the first payload byte.
FlipPositions == {5, 13}

RawFramesOf(i) ==
    {Flip(header_attach(crc_attach(p)).val, pos) :
        p \in {q \in PayloadsOf(i) : Len(q) > 0}, pos \in FlipPositions}

(***************************************************************************)
(* The transport: a TCP stream per direction.  socket.send accepts the     *)
(* whole message or a shorter prefix of it; socket.recv(n) blocks until    *)
(* bytes or the end of the stream are there and returns at most n bytes.   *)
(***************************************************************************)
WriteCounts(len, short) == {len} \cup {k \in ShortCounts : short /\ k < len}

ReadCounts(n, avail, short) ==
    {Min(n, avail)} \cup {k \in ShortCounts : short /\ k < Min(n, avail)}

SockError == [exc |-> "socket.error", ret |-> 0, wire |-> <<>>]

\* socket.send(msg) on a socket in state own whose peer has or has not gone:
\* the exception, the count returned and the bytes put on the wire.
SockSend(own, peerGone, msg, short) ==
    IF own # "open" THEN {SockError}
    ELSE IF peerGone THEN {SockError, [exc |-> "", ret |-> Len(msg), wire |-> <<>>]}
    ELSE {[exc |-> "", ret |-> k, wire |-> Take(msg, k)] : k \in WriteCounts(Len(msg), short)}

\* The byte count a recv(size) asks for.
WantOf(size) == IF Countable(size) THEN DigitsNat(size.mag) ELSE 256 * 256 * 256 * 64

VARIABLES
    cliSock,      \* PClientSocket.client_socket: "none", "open", "closed"
    cliSends,     \* frames the client has written
    cliSend,      \* the client's last send: payload, exception, message, return
    cliSent,      \* payloads of the sends that returned a byte count
    cliRpc,       \* the client inside recv: "idle", "header", "body"
    cliRecv,      \* the client's current or last recv: bytes read, result
    cliGot,       \* results of the client's completed recv calls
    tampered,     \* a faulty peer wrote a corrupt frame on the connection
    cliLast,      \* the client's last call on a socket that was not open
    faults,       \* short transfers and corrupt frames so far
    c2s, s2c,     \* bytes written and not yet read, per direction
    c2sFin, s2cFin, \* the writer has closed its end
    backlog,      \* connected, not yet accepted
    listenSock,   \* the listening socket: "open", "closed"
    srvSock,      \* the accepted socket: "none", "open", "closed"
    keys, ent,    \* client_connections: keys in insertion order, and values
    interrupter,  \* the per-connection Event
    acceptInt,    \* accept_interrupter
    apc, acur,    \* the acceptor thread
    accLog,       \* what accept gave, in order: a connection, or 0 for an error
    codec,        \* the latest call of a function of byteutils, crc or header
    lpc,          \* the receive loop of each connection
    srvRecv,      \* the loop's current or last recv: bytes read, result
    srvSend,      \* the last PServerSocket.send on the connection
    nConn, nDisc, \* calls of client_connected, client_disconnected
    delivered,    \* payloads passed to client_communicated
    appPc, appArg, appPay, appIdx, appSize, nApi,  \* the application thread
    appDead,      \* connections seen to disconnect before the call was issued
    appRet        \* the last call of the application thread that returned

cliVars == <<cliSock, cliSends, cliSend, cliSent, cliRpc, cliRecv, cliGot, tampered,
            cliLast>>

netVars == <<c2s, s2c, c2sFin, s2cFin, backlog, listenSock, srvSock, faults>>

mapVars == <<keys, ent, interrupter, acceptInt>>

accVars == <<apc, acur, accLog>>

loopVars == <<lpc, srvRecv, srvSend>>

hookVars == <<nConn, nDisc, delivered>>

appVars == <<appPc, appArg, appPay, appIdx, appSize, nApi, appDead, appRet>>

vars == <<cliVars, netVars, mapVars, accVars, loopVars, hookVars, appVars, codec>>

\* No function of the codec has been called, and no argument chosen for one.
\* dom is the kind of the argument: "int", "word", "payload", "body", "header".
NoCall == [dom |-> "", f |-> "", arg |-> None, res |-> Ok(None)]

\* No send yet.  sock and peer are the socket's state and whether its peer
\* had gone when send was called; by is the caller of a server send, and
\* stale tells a send_all that was issued after the connection's disconnect
\* had been observed.
NoCliSend == [p |-> None, exc |-> "", msg |-> None, ret |-> 0, sock |-> "none", peer |-> FALSE]

NoSrvSend == [p |-> None, exc |-> "", msg |-> None, ret |-> 0, by |-> "", stale |-> FALSE]

\* No read yet.  hdr and body are the bytes the two reads returned, want the
\* body length asked for, eof whether the latest read drained a stream that
\* had ended, res the result of recv.
\* No call yet on a client socket that was not open.
NoLast == [op |-> "", exc |-> ""]

\* No call of the application thread has returned yet.
NoRet == [op |-> "", arg |-> 0, exc |-> ""]

NoRecv == [hdr |-> None, body |-> None, want |-> 0, eof |-> FALSE, res |-> Ok(None)]

\* The sockets, threads and the application after PServer and the
\* PClientSockets have been constructed.
InitNet ==
    /\ cliSock = [i \in Conns |-> "none"]
    /\ cliSends = [i \in Conns |-> 0]
    /\ cliSend = [i \in Conns |-> NoCliSend]
    /\ cliSent = [i \in Conns |-> <<>>]
    /\ cliRpc = [i \in Conns |-> "idle"]
    /\ cliRecv = [i \in Conns |-> NoRecv]
    /\ cliGot = [i \in Conns |-> <<>>]
    /\ tampered = [i \in Conns |-> FALSE]
    /\ cliLast = [i \in Conns |-> NoLast]
    /\ c2s = [i \in Conns |-> <<>>]
    /\ s2c = [i \in Conns |-> <<>>]
    /\ c2sFin = [i \in Conns |-> FALSE]
    /\ s2cFin = [i \in Conns |-> FALSE]
    /\ backlog = <<>>
    /\ faults = 0
    /\ listenSock = "open"
    /\ srvSock = [i \in Conns |-> "none"]
    /\ keys = <<>>
    /\ ent = [i \in Conns |-> "absent"]
    /\ interrupter = [i \in Conns |-> FALSE]
    /\ acceptInt = FALSE
    /\ apc = "top"
    /\ acur = 0
    /\ accLog = <<>>
    /\ lpc = [i \in Conns |-> "idle"]
    /\ srvRecv = [i \in Conns |-> NoRecv]
    /\ srvSend = [i \in Conns |-> NoSrvSend]
    /\ nConn = [i \in Conns |-> 0]
    /\ nDisc = [i \in Conns |-> 0]
    /\ delivered = [i \in Conns |-> <<>>]
    /\ appPc = "idle"
    /\ appArg = 0
    /\ appPay = None
    /\ appIdx = 0
    /\ appSize = 0
    /\ nApi = 0
    /\ appDead = {}
    /\ appRet = NoRet

Init == InitNet /\ codec = NoCall

(***************************************************************************)
(* send and recv of the two socket wrappers.                               *)
(***************************************************************************)
Failed(e) == [exc |-> e, msg |-> None, ret |-> 0, wire |-> <<>>]

\* A send that builds the frame before it looks for the socket.  A faulty
\* variant, for C18.
PClientSocket_send_BuildsFirst(sock, peerGone, payload, short) ==
    IF payload = None THEN {Failed("TypeError")}
    ELSE LET bytes   == IF isinstance_str(payload) THEN str_to_bytes(payload)
                        ELSE payload
             body    == crc_attach(bytes)
             message == header_attach(body)
         IN  IF message.exc # "" THEN {Failed(message.exc)}
             ELSE IF sock = "none"
             THEN {[exc |-> "", msg |-> None, ret |-> -1, wire |-> <<>>]}
             ELSE {[exc |-> o.exc, msg |-> message.val, ret |-> o.ret, wire |-> o.wire] :
                      o \in SockSend(sock, peerGone, message.val, short)}

\* A send that looks for the socket before it looks at the payload.  A faulty
\* variant, for C19.
PClientSocket_send_SentinelFirst(sock, peerGone, payload, short) ==
    IF sock = "none"
    THEN {[exc |-> "", msg |-> None, ret |-> -1, wire |-> <<>>]}
    ELSE IF payload = None THEN {Failed("TypeError")}
    ELSE LET bytes   == IF isinstance_str(payload) THEN str_to_bytes(payload)
                        ELSE payload
             body    == crc_attach(bytes)
             message == header_attach(body)
         IN  IF message.exc # "" THEN {Failed(message.exc)}
             ELSE {[exc |-> o.exc, msg |-> message.val, ret |-> o.ret, wire |-> o.wire] :
                      o \in SockSend(sock, peerGone, message.val, short)}

\* PClientSocket.send: the possible outcomes for a client socket in state
\* sock: exception, message offered to the transport, return value, bytes
\* the transport took.
PClientSocket_send(sock, peerGone, payload, short) ==
    IF payload = None THEN {Failed("TypeError")}
    ELSE IF sock = "none"
    THEN {[exc |-> "", msg |-> None, ret |-> -1, wire |-> <<>>]}
    ELSE LET bytes   == IF isinstance_str(payload) THEN str_to_bytes(payload)
                        ELSE payload
             body    == crc_attach(bytes)
             message == header_attach(body)
         IN  IF message.exc # "" THEN {Failed(message.exc)}
             ELSE {[exc |-> o.exc, msg |-> message.val, ret |-> o.ret, wire |-> o.wire] :
                      o \in SockSend(sock, peerGone, message.val, short)}

\* PServerSocket.send, likewise, on an accepted socket.
PServerSocket_send(sock, peerGone, payload, short) ==
    IF payload = None THEN {Failed("TypeError")}
    ELSE LET body    == crc_attach(payload)
             message == header_attach(body)
         IN  IF message.exc # "" THEN {Failed(message.exc)}
             ELSE {[exc |-> o.exc, msg |-> message.val, ret |-> o.ret, wire |-> o.wire] :
                      o \in SockSend(sock, peerGone, message.val, short)}

\* A recv without the test for an empty read: the empty header goes on to
\* validate_and_parse.  A faulty variant, for C8.
recv_header_NoEofTest(header_bytes) ==
    LET info == validate_and_parse(header_bytes)
    IN  IF info.exc # "" THEN [done |-> TRUE, res |-> Raise(info.exc), want |-> 0]
        ELSE [done |-> FALSE, res |-> Ok(None), want |-> WantOf(info.val.size)]

\* recv, after its one read of the header: finished with a result, or on to
\* the read of `want` body bytes.
recv_header(header_bytes) ==
    IF Len(header_bytes) <= 0 THEN [done |-> TRUE, res |-> Ok(None), want |-> 0]
    ELSE LET info == validate_and_parse(header_bytes)
         IN  IF info.exc # "" THEN [done |-> TRUE, res |-> Raise(info.exc), want |-> 0]
             ELSE [done |-> FALSE, res |-> Ok(None), want |-> WantOf(info.val.size)]

\* recv, after its one read of the body.
recv_body(body) == Ok(check_and_remove(body))

MayFault == faults < MaxFaults

\* A transfer of k bytes where full were possible counts as a fault.
Faulted(k, full) == IF k < full THEN faults + 1 ELSE faults

\* A read of n bytes can return now: bytes are there, or the stream has
\* ended, or nothing was asked for.
Readable(stream, fin, n) == n = 0 \/ Len(stream) > 0 \/ fin

(***************************************************************************)
(* The client.                                                             *)
(***************************************************************************)
\* PClientSocket.connect: the connection waits in the listener's backlog.
ClientConnect(i) ==
    /\ cliSock[i] = "none"
    /\ listenSock = "open"
    /\ cliSock' = [cliSock EXCEPT ![i] = "open"]
    /\ backlog' = Append(backlog, i)
    /\ UNCHANGED <<cliSends, cliSend, cliSent, cliRpc, cliRecv, cliGot, tampered>>
    /\ UNCHANGED <<c2s, s2c, c2sFin, s2cFin, listenSock, srvSock, faults>>
    /\ UNCHANGED <<mapVars, accVars, loopVars, hookVars, appVars>>
    /\ UNCHANGED cliLast
    /\ UNCHANGED codec

\* PClientSocket.send(p), as one of at most n sends of the client.
ClientSendUpTo(i, p, n) ==
    /\ cliRpc[i] = "idle"
    /\ cliSends[i] < n
    /\ \E o \in PClientSocket_send(cliSock[i], srvSock[i] = "closed", p, MayFault) :
          /\ cliSend' = [cliSend EXCEPT ![i] =
                            [p |-> p, exc |-> o.exc, msg |-> o.msg, ret |-> o.ret,
                             sock |-> cliSock[i], peer |-> srvSock[i] = "closed"]]
          /\ cliSent' = [cliSent EXCEPT ![i] =
                            IF o.exc = "" /\ o.ret >= 0
                            THEN Append(@, IF isinstance_str(p) THEN str_to_bytes(p)
                                           ELSE p)
                            ELSE @]
          /\ c2s' = [c2s EXCEPT ![i] = @ \o o.wire]
          /\ faults' = IF o.exc = "" /\ o.msg # None /\ o.ret < Len(o.msg)
                       THEN faults + 1 ELSE faults
    /\ cliSends' = [cliSends EXCEPT ![i] = @ + 1]
    /\ UNCHANGED <<cliSock, cliRpc, cliRecv, cliGot, tampered>>
    /\ UNCHANGED <<s2c, c2sFin, s2cFin, backlog, listenSock, srvSock>>
    /\ UNCHANGED <<mapVars, accVars, loopVars, hookVars, appVars>>
    /\ UNCHANGED cliLast
    /\ UNCHANGED codec

ClientSend(i, p) == ClientSendUpTo(i, p, MaxSends)

\* A client that sends several frames in a row.
ClientSendBurst(i, p) == ClientSendUpTo(i, p, MaxBurst)

\* A connect that makes a new socket whenever the old one is not connected.
\* A faulty variant, for C20.
PClientSocket_connect_Fresh(sock) ==
    IF sock # "open" THEN [exc |-> "", sock |-> "open"]
    ELSE [exc |-> "socket.error", sock |-> sock]

\* PClientSocket.connect: a socket is created only when there is none; a
\* socket that exists is used again, and connect on a closed (or connected)
\* socket raises.
PClientSocket_connect(sock) ==
    IF sock = "none" THEN [exc |-> "", sock |-> "open"]
    ELSE [exc |-> "socket.error", sock |-> sock]

\* PClientSocket.close: nothing without a socket.
PClientSocket_close(sock) == IF sock = "none" THEN "none" ELSE "closed"

\* connect() called again after close().
ClientReconnect(i) ==
    /\ cliSock[i] = "closed"
    /\ cliRpc[i] = "idle"
    /\ LET r == PClientSocket_connect(cliSock[i])
       IN  /\ cliSock' = [cliSock EXCEPT ![i] = r.sock]
           /\ cliLast' = [cliLast EXCEPT ![i] = [op |-> "connect", exc |-> r.exc]]
           /\ backlog' = IF r.exc = "" THEN Append(backlog, i) ELSE backlog
    /\ UNCHANGED <<cliSends, cliSend, cliSent, cliRpc, cliRecv, cliGot, tampered>>
    /\ UNCHANGED <<c2s, s2c, c2sFin, s2cFin, listenSock, srvSock, faults>>
    /\ UNCHANGED <<mapVars, accVars, loopVars, hookVars, appVars>>
    /\ UNCHANGED codec

\* recv() called after close(): the read on the closed socket raises.
ClientRecvClosed(i) ==
    /\ cliSock[i] = "closed"
    /\ cliRpc[i] = "idle"
    /\ cliLast' = [cliLast EXCEPT ![i] = [op |-> "recv", exc |-> "socket.error"]]
    /\ UNCHANGED <<cliSock, cliSends, cliSend, cliSent, cliRpc, cliRecv, cliGot, tampered>>
    /\ UNCHANGED <<netVars, mapVars, accVars, loopVars, hookVars, appVars>>
    /\ UNCHANGED codec

\* close() called on a PClientSocket that never connected.
ClientCloseUnbound(i) ==
    /\ cliSock[i] = "none"
    /\ cliSock' = [cliSock EXCEPT ![i] = PClientSocket_close(@)]
    /\ cliLast' = [cliLast EXCEPT ![i] = [op |-> "close", exc |-> ""]]
    /\ UNCHANGED <<cliSends, cliSend, cliSent, cliRpc, cliRecv, cliGot, tampered>>
    /\ UNCHANGED <<netVars, mapVars, accVars, loopVars, hookVars, appVars>>
    /\ UNCHANGED codec

\* A faulty peer writes a whole frame with one corrupt byte.
ClientSendRaw(i, m) ==
    /\ cliSock[i] = "open"
    /\ cliRpc[i] = "idle"
    /\ cliSends[i] < MaxSends
    /\ MayFault
    /\ faults' = faults + 1
    /\ cliSends' = [cliSends EXCEPT ![i] = @ + 1]
    /\ tampered' = [tampered EXCEPT ![i] = TRUE]
    /\ c2s' = [c2s EXCEPT ![i] = @ \o m]
    /\ UNCHANGED <<cliSock, cliSend, cliSent, cliRpc, cliRecv, cliGot>>
    /\ UNCHANGED <<s2c, c2sFin, s2cFin, backlog, listenSock, srvSock>>
    /\ UNCHANGED <<mapVars, accVars, loopVars, hookVars, appVars>>
    /\ UNCHANGED cliLast
    /\ UNCHANGED codec

\* PClientSocket.recv is called: it returns None without a socket, else
\* blocks in the read of the header.
ClientRecvCall(i) ==
    /\ cliRpc[i] = "idle"
    /\ cliSock[i] # "closed"
    /\ Len(cliGot[i]) < Len(cliSent[i])
    /\ IF cliSock[i] = "none"
       THEN /\ cliGot' = [cliGot EXCEPT ![i] = Append(@, Ok(None))]
            /\ UNCHANGED <<cliRpc, cliRecv>>
       ELSE /\ cliRpc' = [cliRpc EXCEPT ![i] = "header"]
            /\ cliRecv' = [cliRecv EXCEPT ![i] = NoRecv]
            /\ UNCHANGED cliGot
    /\ UNCHANGED <<cliSock, cliSends, cliSend, cliSent, tampered>>
    /\ UNCHANGED <<netVars, mapVars, accVars, loopVars, hookVars, appVars>>
    /\ UNCHANGED cliLast
    /\ UNCHANGED codec

ClientRecvHeader(i) ==
    /\ cliRpc[i] = "header"
    /\ Readable(s2c[i], s2cFin[i], SIZE)
    /\ \E k \in ReadCounts(SIZE, Len(s2c[i]), MayFault) :
          LET header_bytes == Take(s2c[i], k)
              r == recv_header(header_bytes)
          IN  /\ s2c' = [s2c EXCEPT ![i] = Drop(@, k)]
              /\ faults' = Faulted(k, Min(SIZE, Len(s2c[i])))
              /\ cliRecv' = [cliRecv EXCEPT ![i] =
                    [@ EXCEPT !.hdr = header_bytes, !.want = r.want, !.res = r.res,
                              !.eof = s2cFin[i] /\ k = Len(s2c[i])]]
              /\ IF r.done
                 THEN /\ cliRpc' = [cliRpc EXCEPT ![i] = "idle"]
                      /\ cliGot' = [cliGot EXCEPT ![i] = Append(@, r.res)]
                 ELSE /\ cliRpc' = [cliRpc EXCEPT ![i] = "body"]
                      /\ UNCHANGED cliGot
    /\ UNCHANGED <<cliSock, cliSends, cliSend, cliSent, tampered>>
    /\ UNCHANGED <<c2s, c2sFin, s2cFin, backlog, listenSock, srvSock>>
    /\ UNCHANGED <<mapVars, accVars, loopVars, hookVars, appVars>>
    /\ UNCHANGED cliLast
    /\ UNCHANGED codec

ClientRecvBody(i) ==
    /\ cliRpc[i] = "body"
    /\ Readable(s2c[i], s2cFin[i], cliRecv[i].want)
    /\ \E k \in ReadCounts(cliRecv[i].want, Len(s2c[i]), MayFault) :
          LET body == Take(s2c[i], k)
              r == recv_body(body)
          IN  /\ s2c' = [s2c EXCEPT ![i] = Drop(@, k)]
              /\ faults' = Faulted(k, Min(cliRecv[i].want, Len(s2c[i])))
              /\ cliRecv' = [cliRecv EXCEPT ![i] =
                    [@ EXCEPT !.body = body, !.res = r,
                              !.eof = s2cFin[i] /\ k = Len(s2c[i])]]
              /\ cliGot' = [cliGot EXCEPT ![i] = Append(@, r)]
    /\ cliRpc' = [cliRpc EXCEPT ![i] = "idle"]
    /\ UNCHANGED <<cliSock, cliSends, cliSend, cliSent, tampered>>
    /\ UNCHANGED <<c2s, c2sFin, s2cFin, backlog, listenSock, srvSock>>
    /\ UNCHANGED <<mapVars, accVars, loopVars, hookVars, appVars>>
    /\ UNCHANGED cliLast
    /\ UNCHANGED codec

\* PClientSocket.close: the peer's reads see the end of the stream.
ClientClose(i) ==
    /\ cliSock[i] = "open"
    /\ cliRpc[i] = "idle"
    /\ cliSock' = [cliSock EXCEPT ![i] = "closed"]
    /\ c2sFin' = [c2sFin EXCEPT ![i] = TRUE]
    /\ UNCHANGED <<cliSends, cliSend, cliSent, cliRpc, cliRecv, cliGot, tampered>>
    /\ UNCHANGED <<c2s, s2c, s2cFin, backlog, listenSock, srvSock, faults>>
    /\ UNCHANGED <<mapVars, accVars, loopVars, hookVars, appVars>>
    /\ UNCHANGED cliLast
    /\ UNCHANGED codec

(***************************************************************************)
(* PServer: the acceptor thread.                                           *)
(***************************************************************************)
\* _accept, the loop condition and the call of accept.
AcceptTop ==
    /\ apc = "top"
    /\ apc' = IF acceptInt THEN "done"
              ELSE IF listenSock = "open" THEN "accept" ELSE "top"
    /\ UNCHANGED <<acur, accLog, cliVars, netVars, mapVars, loopVars, hookVars, appVars>>
    /\ UNCHANGED codec

\* PServerSocket.accept returns the next connection of the backlog.
AcceptTake ==
    /\ apc = "accept"
    /\ listenSock = "open"
    /\ Len(backlog) > 0
    /\ acur' = Head(backlog)
    /\ accLog' = Append(accLog, Head(backlog))
    /\ backlog' = Tail(backlog)
    /\ srvSock' = [srvSock EXCEPT ![Head(backlog)] = "open"]
    /\ apc' = "register"
    /\ UNCHANGED <<c2s, s2c, c2sFin, s2cFin, listenSock, faults>>
    /\ UNCHANGED <<cliVars, mapVars, loopVars, hookVars, appVars>>
    /\ UNCHANGED codec

\* An _accept whose loop ends with the first exception.  A faulty variant,
\* for C21.
AfterAccept_EndsLoop(exc) == "done"

\* _accept: where the loop goes after accept, or _add, raised exc.
AfterAccept(exc) == IF exc = "socket.error" THEN "top" ELSE "crashed"

\* PServerSocket.accept raises socket.error (a connection reset before it was
\* taken, no descriptor left): the backlog is as it was.
AcceptError ==
    /\ apc = "accept"
    /\ listenSock = "open"
    /\ MayFault
    /\ faults' = faults + 1
    /\ accLog' = Append(accLog, 0)
    /\ apc' = AfterAccept("socket.error")
    /\ UNCHANGED <<acur, c2s, s2c, c2sFin, s2cFin, backlog, listenSock, srvSock>>
    /\ UNCHANGED <<cliVars, mapVars, loopVars, hookVars, appVars>>
    /\ UNCHANGED codec

\* An accept blocked on a listening socket that close() has closed meanwhile
\* fails with socket.error on some platforms and goes on waiting on others;
\* _accept swallows the error and tests accept_interrupter again.
AcceptWakes ==
    /\ apc = "accept"
    /\ listenSock = "closed"
    /\ accLog' = Append(accLog, 0)
    /\ apc' = AfterAccept("socket.error")
    /\ UNCHANGED <<acur, cliVars, netVars, mapVars, loopVars, hookVars, appVars>>
    /\ UNCHANGED codec

\* client_connections[key] = value on the insertion-ordered dict.
DictSet(ks, key) == IF \E j \in 1..Len(ks) : ks[j] = key THEN ks ELSE Append(ks, key)

DictDel(ks, key) == SelectSeq(ks, LAMBDA x : x # key)

\* An _add that starts the thread as soon as it has stored the entry, before
\* client_connected.  A faulty variant, for C17.
AddRegister_StartsThread ==
    /\ apc = "register"
    /\ interrupter' = [interrupter EXCEPT ![acur] = FALSE]
    /\ keys' = DictSet(keys, acur)
    /\ ent' = [ent EXCEPT ![acur] = "live"]
    /\ lpc' = [lpc EXCEPT ![acur] = "top"]
    /\ apc' = "hook"
    /\ UNCHANGED <<acur, accLog, acceptInt, srvRecv, srvSend, cliVars, netVars, hookVars, appVars>>
    /\ UNCHANGED codec

\* _add: a fresh Event, and the entry (thread, interrupter).
AddRegister ==
    /\ apc = "register"
    /\ interrupter' = [interrupter EXCEPT ![acur] = FALSE]
    /\ keys' = DictSet(keys, acur)
    /\ ent' = [ent EXCEPT ![acur] = "live"]
    /\ apc' = "hook"
    /\ UNCHANGED <<acur, accLog, acceptInt, cliVars, netVars, loopVars, hookVars, appVars>>
    /\ UNCHANGED codec

\* An _add that does not call client_connected.  A faulty variant, for C32.
AddHook_SkipsHook ==
    /\ apc = "hook"
    /\ apc' = "start"
    /\ UNCHANGED <<acur, accLog, cliVars, netVars, mapVars, loopVars, hookVars, appVars>>
    /\ UNCHANGED codec

\* _add: client_connected.
AddHook ==
    /\ apc = "hook"
    /\ nConn' = [nConn EXCEPT ![acur] = @ + 1]
    /\ apc' = "start"
    /\ UNCHANGED <<acur, accLog, nDisc, delivered, cliVars, netVars, mapVars, loopVars, appVars>>
    /\ UNCHANGED codec

\* _add: client_thread.start().
AddStart ==
    /\ apc = "start"
    /\ lpc' = [lpc EXCEPT ![acur] = "top"]
    /\ apc' = "top"
    /\ UNCHANGED <<acur, accLog, srvRecv, srvSend, cliVars, netVars, mapVars, hookVars, appVars>>
    /\ UNCHANGED codec

(***************************************************************************)
(* PServer._listen_on_client: one loop per connection.  "header" and       *)
(* "body" are the loop blocked inside the two reads of recv.               *)
(***************************************************************************)
\* The loop condition, and the call of recv: a socket closed by now raises
\* socket.error, which the loop swallows.
LoopTop(i) ==
    /\ lpc[i] = "top"
    /\ IF interrupter[i] THEN lpc' = [lpc EXCEPT ![i] = "done"]
       ELSE IF srvSock[i] = "closed" THEN lpc' = lpc
       ELSE lpc' = [lpc EXCEPT ![i] = "header"]
    /\ srvRecv' = IF interrupter[i] \/ srvSock[i] = "closed" THEN srvRecv
                  ELSE [srvRecv EXCEPT ![i] = NoRecv]
    /\ UNCHANGED <<srvSend, cliVars, netVars, mapVars, accVars, hookVars, appVars>>
    /\ UNCHANGED codec

\* A loop without the inner test of the interrupter: None always leads to
\* client_disconnected.  A faulty variant, for C10.
AfterRecv_IgnoresInterrupter(res, isSet) ==
    IF res.exc = "socket.error" THEN "top"
    ELSE IF res.exc # "" THEN "crashed"
    ELSE IF res.val = None THEN "disc"
    ELSE "deliver"

\* A loop that a socket.error ends.  A faulty variant, for C34.
AfterRecv_ErrorEndsLoop(res, isSet) ==
    IF res.exc # "" THEN "done"
    ELSE IF res.val = None THEN (IF isSet THEN "done" ELSE "disc")
    ELSE "deliver"

\* Where the loop goes with what recv gave: an exception that is not a
\* socket.error ends the thread; None ends the loop, through
\* client_disconnected when the interrupter is not set; a payload is
\* delivered.
AfterRecv(res, isSet) ==
    IF res.exc = "socket.error" THEN "top"
    ELSE IF res.exc # "" THEN "crashed"
    ELSE IF res.val = None THEN (IF isSet THEN "done" ELSE "disc")
    ELSE "deliver"

LoopHeader(i) ==
    /\ lpc[i] = "header"
    /\ Readable(c2s[i], c2sFin[i], SIZE)
    /\ \E k \in ReadCounts(SIZE, Len(c2s[i]), MayFault) :
          LET header_bytes == Take(c2s[i], k)
              r == recv_header(header_bytes)
          IN  /\ c2s' = [c2s EXCEPT ![i] = Drop(@, k)]
              /\ faults' = Faulted(k, Min(SIZE, Len(c2s[i])))
              /\ srvRecv' = [srvRecv EXCEPT ![i] =
                    [@ EXCEPT !.hdr = header_bytes, !.want = r.want, !.res = r.res,
                              !.eof = c2sFin[i] /\ k = Len(c2s[i])]]
              /\ lpc' = [lpc EXCEPT ![i] =
                    IF r.done THEN AfterRecv(r.res, interrupter[i])
                    ELSE IF srvSock[i] = "closed" THEN "top"
                    ELSE "body"]
    /\ UNCHANGED <<s2c, c2sFin, s2cFin, backlog, listenSock, srvSock>>
    /\ UNCHANGED <<srvSend, cliVars, mapVars, accVars, hookVars, appVars>>
    /\ UNCHANGED codec

LoopBody(i) ==
    /\ lpc[i] = "body"
    /\ Readable(c2s[i], c2sFin[i], srvRecv[i].want)
    /\ \E k \in ReadCounts(srvRecv[i].want, Len(c2s[i]), MayFault) :
          LET body == Take(c2s[i], k)
              r == recv_body(body)
          IN  /\ c2s' = [c2s EXCEPT ![i] = Drop(@, k)]
              /\ faults' = Faulted(k, Min(srvRecv[i].want, Len(c2s[i])))
              /\ srvRecv' = [srvRecv EXCEPT ![i] =
                    [@ EXCEPT !.body = body, !.res = r,
                              !.eof = c2sFin[i] /\ k = Len(c2s[i])]]
              /\ lpc' = [lpc EXCEPT ![i] = AfterRecv(r, interrupter[i])]
    /\ UNCHANGED <<s2c, c2sFin, s2cFin, backlog, listenSock, srvSock>>
    /\ UNCHANGED <<srvSend, cliVars, mapVars, accVars, hookVars, appVars>>
    /\ UNCHANGED codec

\* client_disconnected, then the entry becomes (None, None).
LoopDisconnected(i) ==
    /\ lpc[i] = "disc"
    /\ nDisc' = [nDisc EXCEPT ![i] = @ + 1]
    /\ keys' = DictSet(keys, i)
    /\ ent' = [ent EXCEPT ![i] = "dead"]
    /\ lpc' = [lpc EXCEPT ![i] = "done"]
    /\ UNCHANGED <<interrupter, acceptInt, nConn, delivered, srvRecv, srvSend>>
    /\ UNCHANGED <<cliVars, netVars, accVars, appVars>>
    /\ UNCHANGED codec

\* PServer.send(payload, client_socket).
PServer_send(sock, peerGone, payload, client_socket, short) ==
    IF payload = None THEN {Failed("TypeError")}
    ELSE IF client_socket = 0 THEN {Failed("TypeError")}
    ELSE PServerSocket_send(sock, peerGone, payload, short)

\* client_communicated of the echo server: send(recv, client_socket).  An
\* exception of the hook ends the thread.
LoopDeliver(i) ==
    /\ lpc[i] = "deliver"
    /\ delivered' = [delivered EXCEPT ![i] = Append(@, srvRecv[i].res.val)]
    /\ \E o \in PServer_send(srvSock[i], cliSock[i] = "closed", srvRecv[i].res.val, i,
                              MayFault) :
          /\ srvSend' = [srvSend EXCEPT ![i] =
                [p |-> srvRecv[i].res.val, exc |-> o.exc, msg |-> o.msg, ret |-> o.ret,
                 by |-> "echo", stale |-> FALSE]]
          /\ s2c' = [s2c EXCEPT ![i] = @ \o o.wire]
          /\ faults' = IF o.exc = "" /\ o.ret < Len(o.msg) THEN faults + 1 ELSE faults
          /\ lpc' = [lpc EXCEPT ![i] = IF o.exc = "" THEN "top" ELSE "crashed"]
    /\ UNCHANGED <<nConn, nDisc, srvRecv>>
    /\ UNCHANGED <<c2s, c2sFin, s2cFin, backlog, listenSock, srvSock>>
    /\ UNCHANGED <<cliVars, mapVars, accVars, appVars>>
    /\ UNCHANGED codec

\* A read blocked on a socket that this process has closed meanwhile fails
\* with socket.error on some platforms and goes on waiting on others; the
\* loop swallows the error and tests its interrupter again.
LoopRecvError(i) ==
    /\ lpc[i] \in {"header", "body"}
    /\ srvSock[i] = "closed"
    /\ lpc' = [lpc EXCEPT ![i] = AfterRecv(Raise("socket.error"), interrupter[i])]
    /\ srvRecv' = [srvRecv EXCEPT ![i] = [@ EXCEPT !.res = Raise("socket.error")]]
    /\ UNCHANGED <<srvSend, cliVars, netVars, mapVars, accVars, hookVars, appVars>>
    /\ UNCHANGED codec

\* A read on an open socket fails with socket.error (a reset by the peer, a
\* timeout of the network): no byte is taken, and the loop swallows the
\* error and tests its interrupter again.
LoopRecvFails(i) ==
    /\ lpc[i] \in {"header", "body"}
    /\ srvSock[i] = "open"
    /\ MayFault
    /\ faults' = faults + 1
    /\ lpc' = [lpc EXCEPT ![i] = AfterRecv(Raise("socket.error"), interrupter[i])]
    /\ srvRecv' = [srvRecv EXCEPT ![i] = [@ EXCEPT !.res = Raise("socket.error")]]
    /\ UNCHANGED <<c2s, s2c, c2sFin, s2cFin, backlog, listenSock, srvSock>>
    /\ UNCHANGED <<srvSend, cliVars, mapVars, accVars, hookVars, appVars>>
    /\ UNCHANGED codec

(***************************************************************************)
(* PServer: calls of the application thread.                               *)
(***************************************************************************)
\* _clean_up_client: what it does to the interrupter of a connection whose
\* entry is e.
CleanUpSets(e) == e = "live"

\* What a call of the application thread ended with.
Returned(op, arg, exc) == [op |-> op, arg |-> arg, exc |-> exc]

\* remove(client_socket), up to the del: _clean_up_client.  Without an
\* entry the unpacking of None raises TypeError and nothing is done.
ApiRemove(i) ==
    /\ appPc = "idle"
    /\ nApi < MaxApiCalls
    /\ nApi' = nApi + 1
    /\ IF ent[i] = "absent"
       THEN /\ appRet' = Returned("remove", i, "TypeError")
            /\ UNCHANGED <<appPc, appArg, interrupter, srvSock, s2cFin>>
       ELSE /\ interrupter' = [interrupter EXCEPT ![i] = @ \/ CleanUpSets(ent[i])]
            /\ srvSock' = [srvSock EXCEPT ![i] = "closed"]
            /\ s2cFin' = [s2cFin EXCEPT ![i] = TRUE]
            /\ appPc' = "rmDel"
            /\ appArg' = i
            /\ UNCHANGED appRet
    /\ UNCHANGED <<appPay, appIdx, appSize, appDead, keys, ent, acceptInt>>
    /\ UNCHANGED <<c2s, s2c, c2sFin, backlog, listenSock, faults>>
    /\ UNCHANGED <<cliVars, accVars, loopVars, hookVars>>
    /\ UNCHANGED codec

\* remove: del self.client_connections[client_socket] (KeyError when the
\* key is gone).
ApiRemoveDel ==
    /\ appPc = "rmDel"
    /\ keys' = DictDel(keys, appArg)
    /\ ent' = [ent EXCEPT ![appArg] = "absent"]
    /\ appRet' = Returned("remove", appArg,
                          IF ent[appArg] = "absent" THEN "KeyError" ELSE "")
    /\ appPc' = "idle"
    /\ appArg' = 0
    /\ UNCHANGED <<appPay, appIdx, appSize, appDead, nApi, interrupter, acceptInt>>
    /\ UNCHANGED <<cliVars, netVars, accVars, loopVars, hookVars>>
    /\ UNCHANGED codec

\* close(): the iteration over client_connections begins.
ApiClose ==
    /\ appPc = "idle"
    /\ nApi < MaxApiCalls
    /\ nApi' = nApi + 1
    /\ appPc' = "closeIter"
    /\ appIdx' = 1
    /\ appSize' = Len(keys)
    /\ UNCHANGED <<appArg, appPay, appDead, appRet>>
    /\ UNCHANGED <<cliVars, netVars, mapVars, accVars, loopVars, hookVars>>
    /\ UNCHANGED codec

\* close(): one turn of the for loop.  The dict iterator raises
\* RuntimeError when the dict changed size, and close() is abandoned.
ApiCloseIter ==
    /\ appPc = "closeIter"
    /\ IF Len(keys) # appSize
       THEN /\ appPc' = "idle"
            /\ appIdx' = 0
            /\ appSize' = 0
            /\ appRet' = Returned("close", 0, "RuntimeError")
            /\ UNCHANGED <<interrupter, srvSock, s2cFin>>
       ELSE IF appIdx > Len(keys)
       THEN /\ appPc' = "closeFin"
            /\ appIdx' = 0
            /\ appSize' = 0
            /\ UNCHANGED <<appRet, interrupter, srvSock, s2cFin>>
       ELSE LET i == keys[appIdx]
            IN  /\ interrupter' = [interrupter EXCEPT ![i] = @ \/ CleanUpSets(ent[i])]
                /\ srvSock' = [srvSock EXCEPT ![i] = "closed"]
                /\ s2cFin' = [s2cFin EXCEPT ![i] = TRUE]
                /\ appIdx' = appIdx + 1
                /\ UNCHANGED <<appPc, appSize, appRet>>
    /\ UNCHANGED <<appArg, appPay, appDead, nApi, keys, ent, acceptInt>>
    /\ UNCHANGED <<c2s, s2c, c2sFin, backlog, listenSock, faults>>
    /\ UNCHANGED <<cliVars, accVars, loopVars, hookVars>>
    /\ UNCHANGED codec

\* close(): accept_interrupter.set(), client_connections.clear(),
\* server_socket.close().
ApiCloseFin ==
    /\ appPc = "closeFin"
    /\ acceptInt' = TRUE
    /\ keys' = <<>>
    /\ ent' = [i \in Conns |-> "absent"]
    /\ listenSock' = "closed"
    /\ appPc' = "idle"
    /\ appRet' = Returned("close", 0, "")
    /\ UNCHANGED <<appArg, appPay, appIdx, appSize, appDead, nApi, interrupter>>
    /\ UNCHANGED <<c2s, s2c, c2sFin, s2cFin, backlog, srvSock, faults>>
    /\ UNCHANGED <<cliVars, accVars, loopVars, hookVars>>
    /\ UNCHANGED codec

\* send_all(payload): the iteration begins.
ApiSendAll(p) ==
    /\ appPc = "idle"
    /\ nApi < MaxApiCalls
    /\ nApi' = nApi + 1
    /\ appPc' = "sendAll"
    /\ appPay' = p
    /\ appIdx' = 1
    /\ appSize' = Len(keys)
    /\ appDead' = {i \in Conns : nDisc[i] > 0 /\ lpc[i] = "done"}
    /\ UNCHANGED <<appArg, appRet>>
    /\ UNCHANGED <<cliVars, netVars, mapVars, accVars, loopVars, hookVars>>
    /\ UNCHANGED codec

\* send_all: one turn of the for loop, a send to the next key.  The dict
\* iterator raises RuntimeError when the dict changed size; an exception
\* of the send leaves send_all.
ApiSendAllIter ==
    /\ appPc = "sendAll"
    /\ IF Len(keys) # appSize \/ appIdx > Len(keys)
       THEN /\ appPc' = "idle"
            /\ appPay' = None
            /\ appIdx' = 0
            /\ appSize' = 0
            /\ appDead' = {}
            /\ appRet' = Returned("send_all", 0,
                                  IF Len(keys) # appSize THEN "RuntimeError" ELSE "")
            /\ UNCHANGED <<srvSend, s2c, faults>>
       ELSE LET i == keys[appIdx]
            IN  \E o \in PServer_send(srvSock[i], cliSock[i] = "closed", appPay, i,
                                      MayFault) :
                   /\ srvSend' = [srvSend EXCEPT ![i] =
                         [p |-> appPay, exc |-> o.exc, msg |-> o.msg, ret |-> o.ret,
                          by |-> "send_all", stale |-> i \in appDead]]
                   /\ s2c' = [s2c EXCEPT ![i] = @ \o o.wire]
                   /\ faults' = IF o.exc = "" /\ o.ret < Len(o.msg)
                                THEN faults + 1 ELSE faults
                   /\ IF o.exc = ""
                      THEN /\ appIdx' = appIdx + 1
                           /\ UNCHANGED <<appPc, appPay, appSize, appDead, appRet>>
                      ELSE /\ appPc' = "idle"
                           /\ appPay' = None
                           /\ appIdx' = 0
                           /\ appSize' = 0
                           /\ appDead' = {}
                           /\ appRet' = Returned("send_all", i, o.exc)
    /\ UNCHANGED <<appArg, nApi, lpc, srvRecv>>
    /\ UNCHANGED <<c2s, c2sFin, s2cFin, backlog, listenSock, srvSock>>
    /\ UNCHANGED <<cliVars, mapVars, accVars, hookVars>>
    /\ UNCHANGED codec

\* What the application passes to send: a payload or None, a connection it
\* was handed by a hook or None (0).
SendPayloads == ApiPayloads \cup {None}

SendTargets == {0} \cup {i \in Conns : srvSock[i] # "none"}

\* The frame of the send that is under way.
FrameOf(payload) == header_attach(crc_attach(payload)).val

\* send(payload, client_socket), when socket.send takes the frame at once,
\* takes a prefix of it for good, or fails.
ApiSend(p, c) ==
    /\ appPc = "idle"
    /\ nApi < MaxApiCalls
    /\ nApi' = nApi + 1
    /\ appPay' = p
    /\ \E o \in PServer_send(IF c = 0 THEN "none" ELSE srvSock[c],
                             IF c = 0 THEN FALSE ELSE cliSock[c] = "closed",
                             p, c, MayFault) :
          /\ appRet' = Returned("send", c, o.exc)
          /\ faults' = IF o.exc = "" /\ o.ret < Len(o.msg) THEN faults + 1 ELSE faults
          /\ IF o.msg = None
             THEN UNCHANGED <<srvSend, s2c>>
             ELSE /\ srvSend' = [srvSend EXCEPT ![c] =
                        [p |-> p, exc |-> o.exc, msg |-> o.msg, ret |-> o.ret,
                         by |-> "send", stale |-> FALSE]]
                  /\ s2c' = [s2c EXCEPT ![c] = @ \o o.wire]
    /\ UNCHANGED <<appPc, appArg, appIdx, appSize, appDead, lpc, srvRecv>>
    /\ UNCHANGED <<c2s, c2sFin, s2cFin, backlog, listenSock, srvSock>>
    /\ UNCHANGED <<cliVars, mapVars, accVars, hookVars>>
    /\ UNCHANGED codec

\* send(payload, client_socket), when socket.send blocks with the send
\* buffer full after k bytes of the frame: the thread waits inside the one
\* call, holding no lock, with the rest of the frame still to be written.
ApiSendBlocks(p, c, k) ==
    /\ appPc = "idle"
    /\ nApi < MaxApiCalls
    /\ MayFault
    /\ c # 0
    /\ srvSock[c] = "open"
    /\ cliSock[c] = "open"
    /\ k < Len(FrameOf(p))
    /\ nApi' = nApi + 1
    /\ faults' = faults + 1
    /\ appPc' = "sendRest"
    /\ appArg' = c
    /\ appPay' = p
    /\ appIdx' = k
    /\ s2c' = [s2c EXCEPT ![c] = @ \o Take(FrameOf(p), k)]
    /\ UNCHANGED <<appSize, appDead, appRet, loopVars>>
    /\ UNCHANGED <<c2s, c2sFin, s2cFin, backlog, listenSock, srvSock>>
    /\ UNCHANGED <<cliVars, mapVars, accVars, hookVars>>
    /\ UNCHANGED codec

\* The blocked socket.send writes the rest of its frame and returns.
ApiSendRest ==
    /\ appPc = "sendRest"
    /\ s2c' = [s2c EXCEPT ![appArg] = @ \o Drop(FrameOf(appPay), appIdx)]
    /\ srvSend' = [srvSend EXCEPT ![appArg] =
          [p |-> appPay, exc |-> "", msg |-> FrameOf(appPay),
           ret |-> Len(FrameOf(appPay)), by |-> "send", stale |-> FALSE]]
    /\ appRet' = Returned("send", appArg, "")
    /\ appPc' = "idle"
    /\ appArg' = 0
    /\ appIdx' = 0
    /\ UNCHANGED <<appPay, appSize, appDead, nApi, lpc, srvRecv>>
    /\ UNCHANGED <<c2s, c2sFin, s2cFin, backlog, listenSock, srvSock, faults>>
    /\ UNCHANGED <<cliVars, mapVars, accVars, hookVars>>
    /\ UNCHANGED codec

(***************************************************************************)
(* The system.  Spec is every thread over every connection.  Its state     *)
(* space is checked in two parts: SpecEcho is all the connections with the *)
(* echo server and no call of the application thread; SpecConn is one      *)
(* connection with the application thread's remove, close and send_all.    *)
(***************************************************************************)
ClientStep(i) ==
    \/ ClientConnect(i)
    \/ \E p \in PayloadsOf(i) : ClientSend(i, p)
    \/ \E m \in RawFramesOf(i) : ClientSendRaw(i, m)
    \/ ClientRecvCall(i)
    \/ ClientRecvHeader(i)
    \/ ClientRecvBody(i)
    \/ ClientClose(i)

Acceptor == AcceptTop \/ AcceptTake \/ AddRegister \/ AddHook \/ AddStart

LoopStep(i) ==
    \/ LoopTop(i)
    \/ LoopHeader(i)
    \/ LoopBody(i)
    \/ LoopDisconnected(i)
    \/ LoopDeliver(i)

App ==
    \/ \E i \in Conns : ApiRemove(i)
    \/ ApiRemoveDel
    \/ ApiClose
    \/ ApiCloseIter
    \/ ApiCloseFin
    \/ \E p \in ApiPayloads : ApiSendAll(p)
    \/ ApiSendAllIter
    \/ \E p \in SendPayloads : \E c \in SendTargets : ApiSend(p, c)
    \/ \E p \in ApiPayloads : \E c \in SendTargets : \E k \in ShortCounts :
          ApiSendBlocks(p, c, k)
    \/ ApiSendRest

Next ==
    \/ \E i \in Conns : ClientStep(i) \/ LoopStep(i) \/ LoopRecvError(i)
    \/ Acceptor
    \/ App

Spec == Init /\ [][Next]_vars

NextEcho ==
    \/ \E i \in Conns : ClientStep(i) \/ LoopStep(i)
    \/ Acceptor

SpecEcho == Init /\ [][NextEcho]_vars

\* The connection SpecConn follows.
Solo == {1}

NextConn ==
    \/ \E i \in Solo : ClientStep(i) \/ LoopStep(i) \/ LoopRecvError(i)
    \/ Acceptor
    \/ App

SpecConn == Init /\ [][NextConn]_vars

\* The connections' life cycle alone: clients that connect and close, the
\* acceptor, the loops, and the calls of the application thread, over every
\* connection.
ClientLife(i) == ClientConnect(i) \/ ClientClose(i)

LoopLife(i) == LoopTop(i) \/ LoopHeader(i) \/ LoopDisconnected(i) \/ LoopRecvError(i)

NextMap ==
    \/ \E i \in Conns : ClientLife(i) \/ LoopLife(i)
    \/ Acceptor
    \/ App

SpecMap == Init /\ [][NextMap]_vars

\* The connections' life cycle with reads that fail: on an open socket, and on
\* one that the application has closed.
NextRetry ==
    \/ \E i \in Conns : ClientLife(i) \/ LoopLife(i) \/ LoopRecvFails(i)
    \/ Acceptor
    \/ App

SpecRetry == Init /\ [][NextRetry]_vars

\* One connection whose client sends up to MaxBurst frames in a row, with the
\* echo server.
NextFifo ==
    \/ \E i \in Solo :
          \/ ClientConnect(i)
          \/ \E p \in BurstPayloads : ClientSendBurst(i, p)
          \/ ClientRecvCall(i)
          \/ ClientRecvHeader(i)
          \/ ClientRecvBody(i)
          \/ ClientClose(i)
          \/ LoopStep(i)
    \/ Acceptor

SpecFifo == Init /\ [][NextFifo]_vars

\* One connection whose client also passes None to send, closes a socket it
\* never connected, and calls connect and recv after close.
NextClient ==
    \/ \E i \in Solo :
          \/ ClientStep(i)
          \/ ClientSend(i, None)
          \/ \E p \in StrPayloads : ClientSend(i, p)
          \/ ClientCloseUnbound(i)
          \/ ClientReconnect(i)
          \/ ClientRecvClosed(i)
          \/ LoopStep(i)
          \/ LoopRecvError(i)
    \/ Acceptor
    \/ App

SpecClient == Init /\ [][NextClient]_vars

\* Clients that connect and close, and a listener whose accept may fail.  The
\* acceptor is a thread of its own that the scheduler keeps running.
NextAccept ==
    \/ \E i \in Conns : ClientLife(i) \/ LoopTop(i) \/ LoopHeader(i) \/ LoopDisconnected(i)
    \/ Acceptor
    \/ AcceptError

SpecAccept == Init /\ [][NextAccept]_vars /\ WF_vars(Acceptor)

\* Clients that connect and close, and an application that calls remove or
\* close, where every thread that can take a step is scheduled: the
\* acceptor, a loop, and a call of the application once it has begun.  A read
\* that blocks on a socket closed by this process is not one of them:
\* whether it fails is up to the platform.
LoopGoesOn == \E i \in Conns : LoopTop(i) \/ LoopHeader(i) \/ LoopDisconnected(i)

AppGoesOn == ApiRemoveDel \/ ApiCloseIter \/ ApiCloseFin

NextCancel ==
    \/ \E i \in Conns : ClientLife(i) \/ LoopRecvError(i) \/ ApiRemove(i)
    \/ LoopGoesOn
    \/ Acceptor
    \/ ApiClose
    \/ AppGoesOn

SpecCancel ==
    /\ Init
    /\ [][NextCancel]_vars
    /\ WF_vars(Acceptor)
    /\ WF_vars(LoopGoesOn)
    /\ WF_vars(AppGoesOn)

\* The server is closed while its acceptor thread runs.  A begun call goes
\* on and the acceptor thread is scheduled; that a blocked accept fails when
\* its socket is closed is left to the platform.
NextStop ==
    \/ \E i \in Conns : ClientLife(i) \/ ApiRemove(i)
    \/ LoopGoesOn
    \/ Acceptor
    \/ AcceptWakes
    \/ ApiClose
    \/ AppGoesOn

SpecStop ==
    Init /\ [][NextStop]_vars /\ WF_vars(Acceptor) /\ WF_vars(LoopGoesOn) /\ WF_vars(AppGoesOn)

(***************************************************************************)
(* The codec alone: byteutils, crc and header as functions.  An argument   *)
(* is chosen at the start and the function of its kind is applied to it.   *)
(***************************************************************************)
\* The longest payload the codec is given.
MaxCodecLen == 2

CodecBytes == {0, 97}

\* One bit of the byte at pos flipped.
FlipBit(msg, pos, bit) == [msg EXCEPT ![pos] = Xor8(@, 2 ^ bit)]

\* Integers of the signed 32-bit range: 0, 1, 255, 256, 2^31 - 1, -1, -256
\* and -2^31.
Int32Inputs ==
    {PyNat(0), PyNat(1), PyNat(255), PyNat(256), PyInt(FALSE, <<255, 255, 255, 127>>),
     PyNeg(1), PyNeg(256), PyInt(TRUE, <<0, 0, 0, 128>>)}

\* Byte strings of up to one byte more than an int.
WordInputs == UNION {[1..n -> {0, 255}] : n \in 0..(BYTES_PER_INT + 1)}

CodecPayloads == UNION {[1..n -> CodecBytes] : n \in 0..MaxCodecLen}

\* The empty payload followed by the 4 bytes of its CRC-32.
EmptyBody == int_to_bytes(crc32(<<>>).val).val

\* Bodies with their checksum: what attach gives, and the empty payload's.
GoodBodies == {crc_attach(p) : p \in CodecPayloads \ {<<>>}} \cup {EmptyBody}

\* A body with one bit of its payload part flipped.
FlippedBodies ==
    UNION {{FlipBit(b, pos, bit) : pos \in 1..(Len(b) - NUM_BYTES), bit \in 0..7} :
              b \in GoodBodies}

\* Payloads without a checksum, one of them longer than a checksum.
BarePayloads == CodecPayloads \cup {<<97, 97, 97, 97, 97>>, <<0, 1, 2>>}

CodecBodies == GoodBodies \cup FlippedBodies \cup BarePayloads

\* The headers that attach puts in front of the bodies it accepts.
GoodHeaders ==
    {Take(header_attach(b).val, SIZE) : b \in {c \in GoodBodies : header_attach(c).exc = ""}}

\* A header with one bit of its first 8 bytes flipped.
FlippedHeaders ==
    {FlipBit(h, pos, bit) : h \in GoodHeaders, pos \in 1..CRC_OFFSET, bit \in 0..7}

\* Headers whose checksum is right and whose length field has its high bit
\* set: FF FF FF FF and 00 00 00 80.
HighBitHeaders ==
    {crc_attach(HEADER_BYTE \o <<0, 0, 0>> \o w) :
        w \in {<<255, 255, 255, 255>>, <<0, 0, 0, 128>>}}

\* Headers that are a byte short, a byte long, or empty.
WrongLengthHeaders ==
    {Take(h, SIZE - 1) : h \in GoodHeaders} \cup {h \o <<0>> : h \in GoodHeaders}
        \cup {<<>>}

CodecHeaders == GoodHeaders \cup FlippedHeaders \cup HighBitHeaders \cup WrongLengthHeaders

\* Strings: empty, ascii, and one of two utf-8 bytes.
CodecStrs == StrPayloads \cup {Str(<<97>>), Str(<<97, 233>>)}

Chosen(dom, arg) == [dom |-> dom, f |-> "", arg |-> arg, res |-> Ok(None)]

InitCodec ==
    /\ InitNet
    /\ \/ \E n \in Int32Inputs : codec = Chosen("int", n)
       \/ \E b \in WordInputs : codec = Chosen("word", b)
       \/ \E b \in CodecPayloads : codec = Chosen("payload", b)
       \/ \E b \in CodecBodies : codec = Chosen("body", b)
       \/ \E b \in CodecHeaders : codec = Chosen("header", b)
       \/ \E t \in CodecStrs : codec = Chosen("str", t)
       \/ codec = Chosen("null", None)

\* The call f(codec.arg) with the result res, on an argument of kind dom.
Call(dom, f, res) ==
    /\ codec.dom = dom
    /\ codec.f = ""
    /\ codec' = [codec EXCEPT !.f = f, !.res = res]
    /\ UNCHANGED <<cliVars, netVars, mapVars, accVars, loopVars, hookVars, appVars>>

Call_int_to_bytes == Call("int", "int_to_bytes", int_to_bytes(codec.arg))

Call_bytes_to_int == Call("word", "bytes_to_int", bytes_to_int(codec.arg))

Call_attach == Call("payload", "crc.attach", Ok(crc_attach(codec.arg)))

Call_check == Call("body", "crc.check", Ok(crc_check(codec.arg)))

Call_check_and_remove ==
    Call("body", "crc.check_and_remove", Ok(check_and_remove(codec.arg)))

Call_header_attach == Call("body", "header.attach", header_attach(codec.arg))

Call_validate_and_parse ==
    Call("header", "header.validate_and_parse", validate_and_parse(codec.arg))

Call_str_to_bytes == Call("str", "str_to_bytes", Ok(str_to_bytes(codec.arg)))

Call_bytes_to_str == Call("payload", "bytes_to_str", bytes_to_str(codec.arg))

Call_crc32 == Call("payload", "crc.crc32", crc32(codec.arg))

\* The calls with None for argument: str_to_bytes, bytes_to_str, crc32,
\* crc.attach, crc.check, header.attach and header.validate_and_parse.
Call_None ==
    \/ Call("null", "str_to_bytes", Ok(str_to_bytes(None)))
    \/ Call("null", "bytes_to_str", bytes_to_str(None))
    \/ Call("null", "crc.crc32", crc32(None))
    \/ Call("null", "crc.attach", Ok(crc_attach(None)))
    \/ Call("null", "crc.check", Ok(crc_check(None)))
    \/ Call("null", "header.attach", header_attach(None))
    \/ Call("null", "header.validate_and_parse", validate_and_parse(None))

NextCodec ==
    \/ Call_int_to_bytes
    \/ Call_str_to_bytes
    \/ Call_bytes_to_str
    \/ Call_crc32
    \/ Call_None
    \/ Call_bytes_to_int
    \/ Call_attach
    \/ Call_check
    \/ Call_check_and_remove
    \/ Call_header_attach
    \/ Call_validate_and_parse

SpecCodec == InitCodec /\ [][NextCodec]_vars

(***************************************************************************)
(* The wire format as the specification states it, for the claims.         *)
(***************************************************************************)
Crc32LE(b) == XorW(CrcUpdate(AllOnes, b), AllOnes)

LE32(n) == <<n % 256, (n \div 256) % 256, (n \div 65536) % 256, (n \div 16777216) % 256>>

WireFrame(p) ==
    LET h == <<104, 0, 0, 0>> \o LE32(Len(p) + 4)
    IN  h \o Crc32LE(h) \o p \o Crc32LE(p)

IsPrefix(s, t) == Len(s) <= Len(t) /\ s = SubSeq(t, 1, Len(s))

\* A recv whose 12 header bytes do not carry the checksum of the first 8.
HeaderMismatch(r) ==
    /\ r.hdr # None
    /\ Len(r.hdr) = 12
    /\ SubSeq(r.hdr, 9, 12) # Crc32LE(SubSeq(r.hdr, 1, 8))

\* A recv whose header was valid and whose body, read in full, does not end
\* with the checksum of what precedes it.
BodyMismatch(r) ==
    /\ r.body # None
    /\ r.want >= 4
    /\ Len(r.body) = r.want
    /\ SubSeq(r.body, r.want - 3, r.want) # Crc32LE(SubSeq(r.body, 1, r.want - 4))

(***************************************************************************)
(* C1.  Every send of a payload that is not None on a socket that exists   *)
(* offers the transport exactly Header || p || CRC32_LE(p), the header     *)
(* being 0x68, three zero bytes, the little-endian len(p) + 4 and the      *)
(* little-endian CRC-32 of those 8 bytes.  (Fails for the empty payload.)  *)
(***************************************************************************)
C1_SendOffersTheFrame ==
    \A i \in Conns :
        /\ (cliSend[i].p # None /\ cliSend[i].sock # "none")
              => cliSend[i].msg = WireFrame(cliSend[i].p)
        /\ (srvSend[i].p # None /\ srvSend[i].by # "")
              => srvSend[i].msg = WireFrame(srvSend[i].p)

(***************************************************************************)
(* C2.  On a connection no faulty peer wrote to, the payloads passed to    *)
(* client_communicated are the payloads the client sent on that very       *)
(* connection, and each recv of the client returns the payload it sent.    *)
(* (Fails when a read or a write moves fewer bytes than asked.)            *)
(***************************************************************************)
C2_EchoReturnsThePayload ==
    \A i \in Conns :
        ~tampered[i] =>
            /\ IsPrefix(delivered[i], cliSent[i])
            /\ \A k \in 1..Len(cliGot[i]) : cliGot[i][k] = Ok(cliSent[i][k])

(***************************************************************************)
(* C3.  A send of the zero-length payload on a live connection does not    *)
(* fail.  (It raises TypeError.)                                           *)
(***************************************************************************)
C3_ZeroLengthSendSucceeds ==
    \A i \in Conns :
        (cliSend[i].p = <<>> /\ cliSend[i].sock = "open" /\ ~cliSend[i].peer)
            => cliSend[i].exc = ""

(***************************************************************************)
(* C4.  Every read of recv ends with exactly the count asked for (12       *)
(* header bytes, `size` body bytes), or with the stream ended and drained. *)
(* (recv reads once and goes on with what it got.)                         *)
(***************************************************************************)
ReadIsExact(r) ==
    IF r.body # None THEN Len(r.body) = r.want \/ r.eof
    ELSE r.hdr # None => (Len(r.hdr) = 12 \/ r.eof)

C4_ReadsAreExact == \A i \in Conns : ReadIsExact(srvRecv[i]) /\ ReadIsExact(cliRecv[i])

(***************************************************************************)
(* C5.  A send that returns normally has written all 12 + len(p) + 4 bytes *)
(* of the frame.  (socket.send may take a prefix; send returns its count.) *)
(***************************************************************************)
SentWhole(s) ==
    (s.exc = "" /\ s.msg # None)
        => s.ret = Len(s.msg) /\ Len(s.msg) = 12 + Len(s.p) + 4

C5_SendWritesTheWholeFrame == \A i \in Conns : SentWhole(cliSend[i]) /\ SentWhole(srvSend[i])

(***************************************************************************)
(* C6.  After a recv that met a checksum mismatch the loop is at its top   *)
(* again (or has ended on its interrupter), client_disconnected was not    *)
(* called and the entry is live.  (A header mismatch ends the thread, a    *)
(* body mismatch is taken for a disconnect.)                               *)
(***************************************************************************)
C6_MalformedFrameKeepsTheLoop ==
    \A i \in Conns :
        (HeaderMismatch(srvRecv[i]) \/ BodyMismatch(srvRecv[i])) =>
            /\ lpc[i] = "top" \/ (lpc[i] = "done" /\ interrupter[i])
            /\ nDisc[i] = 0
            /\ ent[i] = "live"

(***************************************************************************)
(* C7.  A recv whose header was valid and whose body fails its checksum    *)
(* raises MalformedDataError.  (It returns None, as at the end of the      *)
(* stream.)                                                                *)
(***************************************************************************)
C7_BodyMismatchRaises ==
    \A i \in Conns :
        /\ BodyMismatch(srvRecv[i]) => srvRecv[i].res.exc = "MalformedDataError"
        /\ BodyMismatch(cliRecv[i]) => cliRecv[i].res.exc = "MalformedDataError"

(***************************************************************************)
(* C8, as stated.  A loop that has ended after a read of zero header bytes *)
(* has called client_disconnected exactly once.  (Not when remove or close *)
(* set the interrupter before recv returned.)                              *)
(***************************************************************************)
C8_PeerCloseAlwaysDisconnects ==
    \A i \in Conns :
        (lpc[i] = "done" /\ srvRecv[i].hdr = <<>>) => nDisc[i] = 1

(***************************************************************************)
(* C8, amended.  A read of zero header bytes makes recv return None        *)
(* without raising; the loop then ends at once when its interrupter is     *)
(* set, and otherwise calls client_disconnected once, makes the entry      *)
(* (None, None) and ends; a loop that has ended calls no hook again.       *)
(***************************************************************************)
C8Step(i) ==
    /\ (lpc[i] = "header" /\ srvRecv'[i].hdr = <<>>) =>
          /\ srvRecv'[i].res = Ok(None)
          /\ lpc'[i] = IF interrupter[i] THEN "done" ELSE "disc"
          /\ nDisc'[i] = nDisc[i]
    /\ (lpc[i] = "disc" /\ srvRecv[i].hdr = <<>> /\ lpc'[i] # "disc") =>
          /\ nDisc[i] = 0
          /\ nDisc'[i] = 1
          /\ ent'[i] = "dead"
          /\ lpc'[i] = "done"
    /\ lpc[i] = "done" =>
          /\ lpc'[i] = "done"
          /\ nConn'[i] = nConn[i]
          /\ nDisc'[i] = nDisc[i]
          /\ delivered'[i] = delivered[i]

C8_PeerCloseDisconnectsOnce == [][\A i \in Conns : C8Step(i)]_vars

C8_Witness ==
    \E i \in Conns :
        /\ cliSock[i] = "closed"
        /\ srvRecv[i].hdr = <<>>
        /\ srvRecv[i].res = Ok(None)
        /\ lpc[i] = "done"
        /\ nDisc[i] = 1
        /\ ent[i] = "dead"

(***************************************************************************)
(* C9.  send_all makes no send on a connection whose loop has called       *)
(* client_disconnected and ended.  (The key stays in client_connections,   *)
(* with the value (None, None), and send_all sends to every key.)          *)
(***************************************************************************)
C9_NoSendAllToDisconnected ==
    \A i \in Conns : ~(srvSend[i].by = "send_all" /\ srvSend[i].stale)

(***************************************************************************)
(* C10, as stated.  A loop that has ended with its interrupter set has     *)
(* called client_disconnected exactly once.                                *)
(***************************************************************************)
C10_CancelDisconnectsOnce ==
    \A i \in Conns :
        (lpc[i] = "done" /\ interrupter[i]) => nDisc[i] = 1

(***************************************************************************)
(* C10, amended.  A loop that ends on its interrupter (at the loop test,   *)
(* or when recv returns None with the interrupter set) ends without        *)
(* calling client_disconnected and leaves its entry alone; the loop heads  *)
(* for client_disconnected only from a recv that returned None while the   *)
(* interrupter was not set, and calls it at most once.                     *)
(***************************************************************************)
C10Step(i) ==
    /\ (lpc[i] \in {"top", "header", "body"} /\ lpc'[i] = "done") =>
          /\ interrupter[i]
          /\ nDisc'[i] = nDisc[i]
          /\ ent'[i] = ent[i]
    /\ (lpc[i] # "disc" /\ lpc'[i] = "disc") =>
          /\ ~interrupter[i]
          /\ srvRecv'[i].res = Ok(None)
    /\ nDisc'[i] # nDisc[i] =>
          /\ lpc[i] = "disc"
          /\ nDisc'[i] = 1

C10_CancelSkipsDisconnect == [][\A i \in Conns : C10Step(i)]_vars

C10_Witness ==
    \E i \in Conns :
        /\ lpc[i] = "done"
        /\ interrupter[i]
        /\ nConn[i] = 1
        /\ nDisc[i] = 0

(***************************************************************************)
(* C11.  Once remove(connection) has returned, the connection's socket is  *)
(* closed and the connection is not a key of client_connections, whatever  *)
(* its receive loop does afterwards.  (A loop that had seen the peer's     *)
(* shutdown stores (None, None) under the key again.)                      *)
(***************************************************************************)
C11_RemovedStaysAbsent ==
    \A i \in Conns :
        (appRet.op = "remove" /\ appRet.arg = i /\ appRet.exc = "") =>
            /\ srvSock[i] = "closed"
            /\ ent[i] = "absent"
            /\ \A j \in 1..Len(keys) : keys[j] # i

(***************************************************************************)
(* C12.  Once close() has returned, client_connections is empty, the       *)
(* listening socket is closed, and every accepted socket is closed with    *)
(* the interrupter of its loop set unless the loop had ended.  (A client   *)
(* accepted while close() runs is registered after the clear, or makes     *)
(* the iteration of close() raise.)                                        *)
(***************************************************************************)
C12_ClosedListenerIsEmpty ==
    (appRet.op = "close" /\ appRet.exc = "") =>
        /\ keys = <<>>
        /\ listenSock = "closed"
        /\ \A i \in Conns :
              /\ ent[i] = "absent"
              /\ srvSock[i] # "none" =>
                    /\ srvSock[i] = "closed"
                    /\ lpc[i] = "done" \/ interrupter[i]

(***************************************************************************)
(* C13.  No call of send_all or close() fails because client_connections   *)
(* changed while the call iterated over it.  (It is a plain dict: its      *)
(* iterator raises RuntimeError when _add has inserted a key meanwhile.)   *)
(***************************************************************************)
C13_IterationNeverFails == appRet.exc # "RuntimeError"

(***************************************************************************)
(* C14.  send_all is not left on the exception of one send while a live    *)
(* connection is still to be served.  (send_all has no try: the first      *)
(* failing send ends it.)                                                  *)
(***************************************************************************)
Unserved(k) ==
    /\ ent[keys[k]] = "live"
    /\ srvSock[keys[k]] = "open"
    /\ cliSock[keys[k]] = "open"

C14Step ==
    (appPc = "sendAll" /\ appPc' = "idle" /\ appRet'.exc = "socket.error")
        => \A k \in (appIdx + 1)..Len(keys) : ~Unserved(k)

C14_SendAllIsolatesErrors == [][C14Step]_vars

(***************************************************************************)
(* C15.  While a send has written a part of its frame on a connection and  *)
(* has the rest to write, no other thread's send writes on that            *)
(* connection.  (Nothing serializes the calls of socket.send: the loop's   *)
(* echo lands inside the frame of the application thread.)                 *)
(***************************************************************************)
C15Step ==
    (appPc = "sendRest" /\ appPc' = "sendRest") =>
        /\ srvSend'[appArg] = srvSend[appArg]
        /\ Len(s2c'[appArg]) <= Len(s2c[appArg])

C15_WritesAreSerialized == [][C15Step]_vars

(***************************************************************************)
(* C16.  The payloads passed to client_communicated for a connection are,  *)
(* in their order and without a repetition or a gap, the first of the      *)
(* payloads the client sent on that connection.                            *)
(***************************************************************************)
C16_DeliveryIsFifo == \A i \in Conns : IsPrefix(delivered[i], cliSent[i])

(***************************************************************************)
(* C17.  While the acceptor thread is at client_connected for a connection *)
(* the loop of that connection, the one thread that calls its              *)
(* client_communicated and client_disconnected, has not been started; so   *)
(* no two hooks of one connection run at once.  Hooks of different         *)
(* connections do.                                                         *)
(***************************************************************************)
InConnected(i) == apc = "hook" /\ acur = i

InLoopHook(i) == lpc[i] \in {"deliver", "disc"}

C17_HooksOfOneConnectionAlternate ==
    \A i \in Conns :
        /\ InConnected(i) => lpc[i] = "idle"
        /\ ~(InConnected(i) /\ InLoopHook(i))

C17_Witness ==
    \E i \in Conns : \E j \in Conns :
        /\ i # j
        /\ InConnected(i)
        /\ InLoopHook(j)

(***************************************************************************)
(* C18.  A send of bytes or of a string, the empty ones included, on a     *)
(* client socket that was never connected returns -1: it does not raise,   *)
(* builds no message, writes no byte and leaves the socket as it was.      *)
(***************************************************************************)
C18Step ==
    \A i \in Conns :
        (/\ cliSends'[i] = cliSends[i] + 1
         /\ cliSock[i] = "none"
         /\ cliSend'[i].p # None)
        => /\ cliSend'[i].exc = ""
           /\ cliSend'[i].ret = -1
           /\ cliSend'[i].msg = None
           /\ c2s' = c2s
           /\ cliSent' = cliSent
           /\ cliSock' = cliSock
           /\ c2sFin' = c2sFin
           /\ backlog' = backlog

C18_UnboundSendReturnsSentinel == [][C18Step]_vars

C18_Witness ==
    \E i \in Conns :
        /\ cliSends[i] = 1
        /\ cliSend[i].sock = "none"
        /\ cliSend[i].p = Str(<<>>)
        /\ cliSend[i].ret = -1
        /\ cliSock[i] = "none"

(***************************************************************************)
(* C19.  A send of None raises TypeError whatever the state of the client  *)
(* socket, the never connected one included; PServer.send raises TypeError *)
(* for a None payload and for a None client socket; none of these writes   *)
(* a byte to a stream.                                                     *)
(***************************************************************************)
C19Step ==
    /\ \A i \in Conns :
          (/\ cliSends'[i] = cliSends[i] + 1
           /\ cliSend'[i] # cliSend[i]
           /\ cliSend'[i].p = None)
          => /\ cliSend'[i].exc = "TypeError"
             /\ cliSend'[i].msg = None
             /\ c2s' = c2s
             /\ s2c' = s2c
    /\ (/\ appPc = "idle"
        /\ nApi' = nApi + 1
        /\ appRet'.op = "send"
        /\ appPc' = "idle"
        /\ (appPay' = None \/ appRet'.arg = 0))
       => /\ appRet'.exc = "TypeError"
          /\ srvSend' = srvSend
          /\ c2s' = c2s
          /\ s2c' = s2c

C19_NullArgumentsRaise == [][C19Step]_vars

C19_Witness ==
    /\ \E i \in Conns :
          /\ cliSends[i] = 1
          /\ cliSend[i].sock = "none"
          /\ cliSend[i].exc = "TypeError"
    /\ appRet.op = "send"
    /\ appRet.arg = 0
    /\ appRet.exc = "TypeError"

(***************************************************************************)
(* C20.  A client socket that was connected and then closed stays closed:  *)
(* every later send raises and writes nothing, every later recv and        *)
(* connect raises socket.error.  A close of a socket that was never        *)
(* connected does nothing.                                                 *)
(***************************************************************************)
C20Step ==
    \A i \in Conns :
        /\ cliSock[i] = "closed" =>
              /\ cliSock'[i] = "closed"
              /\ cliGot'[i] = cliGot[i]
              /\ cliSends'[i] # cliSends[i] =>
                    /\ cliSend'[i].exc # ""
                    /\ c2s'[i] = c2s[i]
              /\ cliLast'[i] # cliLast[i] => cliLast'[i].exc = "socket.error"
        /\ (cliSock[i] = "none" /\ cliLast'[i] # cliLast[i]) =>
              /\ cliLast'[i] = [op |-> "close", exc |-> ""]
              /\ cliSock'[i] = "none"

C20_ClosedAfterConnectedIsFinal == [][C20Step]_vars

C20_Witness ==
    \E i \in Conns :
        /\ cliSock[i] = "closed"
        /\ cliLast[i] = [op |-> "connect", exc |-> "socket.error"]
        /\ cliSends[i] = 1
        /\ cliSend[i].sock = "closed"
        /\ cliSend[i].exc = "socket.error"

\* The statement as given: after any call of close the socket is never
\* connected.
C20_NeverConnectedAfterClose ==
    \A i \in Conns : cliLast[i].op = "close" => cliSock[i] # "open"

(***************************************************************************)
(* C21.  A socket.error of accept sends the acceptor back to the test of   *)
(* its loop: a connection that waits in the backlog after such an error is *)
(* taken, entered in client_connections and given a started thread, as     *)
(* long as the acceptor is scheduled.                                      *)
(***************************************************************************)
AcceptFailed == \E k \in 1..Len(accLog) : accLog[k] = 0

Waiting(i) == \E k \in 1..Len(backlog) : backlog[k] = i

C21_AcceptSurvivesError ==
    \A i \in Conns : (AcceptFailed /\ Waiting(i)) ~> (lpc[i] # "idle")

C21_Witness ==
    \E i \in Conns : \E j \in 1..Len(accLog) : \E k \in 1..Len(accLog) :
        /\ j < k
        /\ accLog[j] = 0
        /\ accLog[k] = i
        /\ ent[i] = "live"
        /\ lpc[i] = "header"

(***************************************************************************)
(* C22.  Once the interrupter of a connection is set, by remove or by      *)
(* close, the thread of its loop ends, whatever the peer does.             *)
(***************************************************************************)
C22_CancelledLoopEnds ==
    \A i \in Conns : interrupter[i] ~> (lpc[i] \in {"done", "crashed"})

(***************************************************************************)
(* The codec as the specification states it, for the claims.               *)
(***************************************************************************)
\* b is some bytes followed by the 4 bytes of their CRC-32.
ValidBody(b) ==
    /\ Len(b) >= 4
    /\ SubSeq(b, Len(b) - 3, Len(b)) = Crc32LE(SubSeq(b, 1, Len(b) - 4))

(***************************************************************************)
(* C23.  int_to_bytes of an integer of the signed 32-bit range returns 4   *)
(* bytes, and bytes_to_int of them is the integer.                         *)
(***************************************************************************)
C23_Int32RoundTrip ==
    codec.f = "int_to_bytes" =>
        /\ codec.res.exc = ""
        /\ Len(codec.res.val) = 4
        /\ bytes_to_int(codec.res.val) = Ok(codec.arg)

(***************************************************************************)
(* C24.  attach(b) is b followed by the 4 bytes of its CRC-32, for the     *)
(* empty b too; check of it is True and check_and_remove of it is b.       *)
(***************************************************************************)
C24_AttachRoundTrip ==
    codec.f = "crc.attach" =>
        /\ codec.res.val = codec.arg \o Crc32LE(codec.arg)
        /\ crc_check(codec.res.val) = "True"
        /\ check_and_remove(codec.res.val) = codec.arg

(***************************************************************************)
(* C25.  header.attach of a body with its checksum, the empty payload's    *)
(* included, returns a message whose first 12 bytes parse to the tag 68,   *)
(* the size len(body) and the checksum of the first 8 bytes.               *)
(***************************************************************************)
C25_HeaderRoundTrip ==
    (codec.f = "header.attach" /\ ValidBody(codec.arg)) =>
        /\ codec.res.exc = ""
        /\ LET info == validate_and_parse(Take(codec.res.val, 12))
           IN  /\ info.exc = ""
               /\ info.val.id = <<104>>
               /\ info.val.size = PyNat(Len(codec.arg))
               /\ info.val.crc = PyInt(FALSE, Crc32LE(Take(codec.res.val, 8)))

(***************************************************************************)
(* C26.  header.attach of bytes that do not end in the CRC-32 of what      *)
(* precedes, a bare payload included, raises MalformedDataError and        *)
(* returns nothing.                                                        *)
(***************************************************************************)
C26_NoHeaderForCorruptBody ==
    (codec.f = "header.attach" /\ codec.arg # None /\ ~ValidBody(codec.arg)) =>
        codec.res = Raise("MalformedDataError")

C26_Witness ==
    /\ codec.f = "header.attach"
    /\ codec.arg \in FlippedBodies
    /\ codec.res.exc = "MalformedDataError"

(***************************************************************************)
(* C27.  A header of 12 bytes whose checksum is right and whose length     *)
(* field has its high bit set is refused with MalformedDataError.          *)
(***************************************************************************)
C27_NegativeSizeRejected ==
    (/\ codec.f = "header.validate_and_parse"
     /\ Len(codec.arg) = 12
     /\ ValidBody(codec.arg)
     /\ codec.arg[8] >= 128)
    => codec.res.exc = "MalformedDataError"

(***************************************************************************)
(* C28.  A generated header with one bit of its first 8 bytes flipped is   *)
(* refused with MalformedDataError, and check of an attached body with one *)
(* bit of its payload flipped is False.                                    *)
(***************************************************************************)
C28_SingleBitFlipDetected ==
    /\ (codec.f = "header.validate_and_parse" /\ codec.arg \in FlippedHeaders)
          => codec.res = Raise("MalformedDataError")
    /\ (codec.f = "crc.check" /\ codec.arg \in FlippedBodies)
          => codec.res = Ok("False")

C28_Witness ==
    /\ codec.f = "header.validate_and_parse"
    /\ codec.arg \in FlippedHeaders
    /\ codec.arg[5] = 133
    /\ codec.res.exc = "MalformedDataError"

(***************************************************************************)
(* C29.  check_and_remove returns the body without its last 4 bytes when   *)
(* the checksum is right, and raises MalformedDataError for a body of 4    *)
(* bytes or more whose checksum is wrong.                                  *)
(***************************************************************************)
C29_CheckAndRemoveRaises ==
    codec.f = "crc.check_and_remove" =>
        /\ ValidBody(codec.arg) =>
              codec.res = Ok(SubSeq(codec.arg, 1, Len(codec.arg) - 4))
        /\ (Len(codec.arg) >= 4 /\ ~ValidBody(codec.arg)) =>
              codec.res.exc = "MalformedDataError"

(***************************************************************************)
(* C30.  Bytes of the wrong length raise MissingDataError: in bytes_to_int *)
(* when there are not 4, in check when there are fewer than 4, in          *)
(* validate_and_parse when there are not 12.                               *)
(***************************************************************************)
C30_WrongLengthIsMissingData ==
    /\ (codec.f = "bytes_to_int" /\ Len(codec.arg) # 4)
          => codec.res.exc = "MissingDataError"
    /\ (codec.f = "crc.check" /\ Len(codec.arg) < 4)
          => codec.res.exc = "MissingDataError"
    /\ (codec.f = "header.validate_and_parse" /\ Len(codec.arg) # 12)
          => codec.res.exc = "MissingDataError"

(***************************************************************************)
(* C31.  Every codec operation called with None raises TypeError instead   *)
(* of returning: str_to_bytes, bytes_to_str, crc32, crc.attach,             *)
(* crc.check, header.attach and validate_and_parse.                        *)
(***************************************************************************)
C31_NullInputRaises ==
    (codec.dom = "null" /\ codec.f # "") => codec.res.exc = "TypeError"

(***************************************************************************)
(* C32.  client_connected is called once for each accepted connection, by  *)
(* the acceptor thread inside _add, and has returned when the connection's *)
(* loop is started: it comes before every client_communicated and          *)
(* client_disconnected of the connection.                                  *)
(***************************************************************************)
Accepted(i) == \E k \in 1..Len(accLog) : accLog[k] = i

BeforeHookReturns(i) == acur = i /\ apc \in {"register", "hook"}

C32_ConnectedOnceBeforeLoop ==
    \A i \in Conns :
        /\ nConn[i] = IF Accepted(i) /\ ~BeforeHookReturns(i) THEN 1 ELSE 0
        /\ lpc[i] # "idle" => nConn[i] = 1
        /\ (delivered[i] # <<>> \/ nDisc[i] > 0 \/ InLoopHook(i)) => nConn[i] = 1

C32_Witness ==
    \E i \in Conns :
        /\ nConn[i] = 1
        /\ delivered[i] # <<>>
        /\ nDisc[i] = 1

(***************************************************************************)
(* C33.  client_communicated is never called with None: what it is given   *)
(* is the body that recv read without its last 4 bytes, after the 12 bytes *)
(* read as header carried the checksum of their first 8 and the body the   *)
(* checksum of what precedes its last 4.                                   *)
(***************************************************************************)
C33Step ==
    \A i \in Conns :
        delivered'[i] # delivered[i] =>
            LET r == srvRecv[i]
            IN  /\ delivered'[i] = Append(delivered[i], r.res.val)
                /\ r.res.exc = ""
                /\ r.res.val # None
                /\ Len(r.hdr) = 12
                /\ ValidBody(r.hdr)
                /\ ValidBody(r.body)
                /\ r.res.val = SubSeq(r.body, 1, Len(r.body) - 4)

C33_DeliveredIsVerified == [][C33Step]_vars

C33_Witness ==
    \E i \in Conns :
        /\ delivered[i] # <<>>
        /\ delivered[i][1] = <<97>>
        /\ ValidBody(srvRecv[i].body)

(***************************************************************************)
(* C34.  A socket.error of a read in a connection's loop leads back to the *)
(* loop's test: the loop does not end with it, no hook is called and the   *)
(* dict is as it was.  From there the loop ends when the interrupter is    *)
(* set and calls recv again when it is not.                                *)
(***************************************************************************)
ReadFails(i) ==
    /\ lpc[i] \in {"header", "body"}
    /\ lpc'[i] # lpc[i]
    /\ srvRecv'[i].res.exc = "socket.error"

AfterReadFailed(i) == lpc[i] = "top" /\ srvRecv[i].res.exc = "socket.error"

C34Step ==
    \A i \in Conns :
        /\ ReadFails(i) =>
              /\ lpc'[i] = "top"
              /\ UNCHANGED <<nConn, nDisc, delivered, keys, ent>>
        /\ (AfterReadFailed(i) /\ lpc'[i] # "top") =>
              /\ lpc'[i] = IF interrupter[i] THEN "done" ELSE "header"
              /\ nDisc'[i] = nDisc[i]

C34_ReadErrorKeepsLoop == [][C34Step]_vars

C34_Witness ==
    \E i \in Conns :
        /\ AfterReadFailed(i)
        /\ ent[i] = "live"
        /\ ~interrupter[i]
        /\ srvSock[i] = "open"

(***************************************************************************)
(* C35.  Once close() has set accept_interrupter and closed the listening  *)
(* socket, the acceptor thread ends.                                       *)
(***************************************************************************)
C35_ClosedAcceptorEnds ==
    (acceptInt /\ listenSock = "closed") ~> (apc = "done")

====
